---------------------------- MODULE Spec2Model ----------------------------
(***************************************************************************)
(* A model of permanent-rs: the cooling schedule, the Dinic max-flow       *)
(* matcher, the Metropolis chains with their filters, and the histogram    *)
(* reweighting step.                                                       *)
(*                                                                         *)
(* f64 values are modelled by a binary floating-point format of the same   *)
(* shape as IEEE 754 binary64 (sign, mantissa, exponent, round to nearest  *)
(* even, gradual underflow, infinities, NaN) with MantBits bits of         *)
(* mantissa instead of 53 and exponents in -ExpRange..ExpRange.            *)
(***************************************************************************)
EXTENDS Integers, Sequences, FiniteSets, TLC

VARIABLES
    schedule,   \* CoolingSchedule: [config, state]
    ret,        \* what the last call of CoolingSchedule::next returned
    prev,       \* the value yielded just before ret (None before two values)
    yielded,    \* how many values next has yielded
    calls       \* how many times next was called

scheduleVars == <<schedule, ret, prev, yielded, calls>>

VARIABLES
    graph,      \* Graph: the bipartite input graph [size, edges]
    shuffled,   \* ShuffledDinicGraph: the decode tables [left, right]
    dinic,      \* DinicGraph
    pc,         \* where calculate_flow stands: build, bfs, dfs, done
    result,     \* what calculate_flow returned
    phases      \* how many times calculate_flow has run bfs

dinicVars == <<graph, shuffled, dinic, pc, result, phases>>

VARIABLES
    filter,       \* the MetropolisFilter T of MCState<T>
    config,       \* MCState::config
    global_state, \* MCState::global_state: [adjacency, weight, beta]
    chains,       \* MCState::chains, a sequence of AugmentedMatch
    matrix,       \* the AtomicMatrix of the evolve call that is running
    workers,      \* where the closure of each chain stands, and its locals
    mc_pc,        \* where the run stands: warmup, cooling, evolve, returned
    next_beta,    \* the argument of the evolve call that is running
    estimator,    \* the local of cooling_evolve
    steps,        \* how many evolve calls have returned
    swapped,      \* the chain whose transit was accepted in the last step, or 0
    panic,        \* the message of the panic that ended the run, or ""
    evolve_ret,   \* what the last evolve call returned
    count_scale,  \* the factor the counters are multiplied by
    scaled        \* what finish returns for the multiplied counters

chainVars == <<filter, config, global_state, chains, matrix, workers, mc_pc,
               next_beta, estimator, steps, swapped, panic, evolve_ret,
               count_scale, scaled>>

\* the run around the components
VARIABLES
    step_budget, \* how many evolve calls the run is followed for
    ratios, \* the ratios the evolve calls of the run have returned, in order
    exit_code, \* the exit status of the process once main is over; Running until then
    product, \* the fold of (1..=size).product::<usize>(): [size, i, acc, wrapped, stage]
    bitmatrix, \* a BitMatrix under set and get: [bits, before, u, v, value, sets, from]
    step_log  \* the running evolve call: the picks of each chain, the weights at its start

runVars == <<step_budget, ratios, exit_code, product, bitmatrix, step_log>>

vars == <<scheduleVars, dinicVars, chainVars, runVars>>
notScheduleVars == <<dinicVars, chainVars, runVars>>
notDinicVars == <<scheduleVars, chainVars, runVars>>

(***************************************************************************)
(* Bounds of the model.                                                    *)
(***************************************************************************)
MantBits == 8
ExpRange == 16
MaxScheduleN == 10
MaxRatio == 2
MaxExtraCalls == 3
MaxNodes == 4
MaxEdges == 3
MaxCap == 2
MaxSize == 3
MaxGraphEdges == 4
MaxDegree == 2
MaxEnsembleN == 2
MaxChains == 1
MaxInterval == 1
MaxEstimations == 3
MaxSteps == 2
MaxChainN == 3
MaxWeight == 2
MaxHeavy == 2
MaxTransits == 3
MaxFinishN == 2
MaxCount == 2
MaxScale == 4
UsizeBits == 16
MaxFactorialN == 18
MaxBitN == 9
MaxSets == 2
MaxBitEdges == 2
ConcurrentChains == 2
MaxPicks == 2

(***************************************************************************)
(* f64                                                                     *)
(***************************************************************************)
TwoP == 2 ^ MantBits
HalfP == 2 ^ (MantBits - 1)
EMin == 0 - ExpRange
EMax == ExpRange

NaN == [c |-> "nan", m |-> 0, e |-> 0]
PInf == [c |-> "inf", m |-> 1, e |-> 0]
NInf == [c |-> "inf", m |-> -1, e |-> 0]
Fin(m, e) == [c |-> "fin", m |-> m, e |-> e]
FZero == Fin(0, EMin)

Abs(i) == IF i < 0 THEN 0 - i ELSE i
Sign(i) == IF i < 0 THEN -1 ELSE 1
Inf(sg) == IF sg < 0 THEN NInf ELSE PInf
IsNaN(a) == a.c = "nan"
IsInf(a) == a.c = "inf"
IsFin(a) == a.c = "fin"
IsZero(a) == a.c = "fin" /\ a.m = 0

\* num / den * 2^e brought to a mantissa of MantBits bits (fewer at EMin)
RECURSIVE Norm(_, _, _)
Norm(num, den, e) ==
    IF e < EMin \/ (num \div TwoP) >= den THEN Norm(num, den * 2, e + 1)
    ELSE IF e > EMin /\ (num \div HalfP) < den THEN Norm(num * 2, den, e - 1)
    ELSE <<num, den, e>>

\* round to nearest, ties to even
RNE(num, den) ==
    LET q == num \div den
        r == num % den
    IN  IF 2 * r > den \/ (2 * r = den /\ q % 2 = 1) THEN q + 1 ELSE q

\* the f64 of sign sg, rounded mantissa q and exponent e
Pack(sg, q, e) ==
    IF q = 0 THEN FZero
    ELSE IF q = TwoP THEN (IF e + 1 > EMax THEN Inf(sg) ELSE Fin(sg * HalfP, e + 1))
    ELSE IF e > EMax THEN Inf(sg)
    ELSE Fin(sg * q, e)

\* the f64 of sign sg nearest to the normalised t
RoundNorm(sg, t) == Pack(sg, RNE(t[1], t[2]), t[3])

\* the f64 nearest to sg * (num / den) * 2^e
RoundRat(sg, num, den, e) ==
    IF num = 0 THEN FZero ELSE RoundNorm(sg, Norm(num, den, e))

\* `x as f64` for an integer x
FromInt(i) == RoundRat(Sign(i), Abs(i), 1, 0)

FNeg(a) == IF IsNaN(a) THEN NaN ELSE [a EXCEPT !.m = 0 - a.m]

FMul(a, b) ==
    IF IsNaN(a) \/ IsNaN(b) THEN NaN
    ELSE IF IsInf(a) \/ IsInf(b)
         THEN IF IsZero(a) \/ IsZero(b) THEN NaN ELSE Inf(Sign(a.m) * Sign(b.m))
    ELSE RoundRat(Sign(a.m) * Sign(b.m), Abs(a.m) * Abs(b.m), 1, a.e + b.e)

FDiv(a, b) ==
    IF IsNaN(a) \/ IsNaN(b) THEN NaN
    ELSE IF IsInf(a) THEN (IF IsInf(b) THEN NaN ELSE Inf(Sign(a.m) * Sign(b.m)))
    ELSE IF IsInf(b) THEN FZero
    ELSE IF IsZero(b) THEN (IF IsZero(a) THEN NaN ELSE Inf(Sign(a.m)))
    ELSE RoundRat(Sign(a.m) * Sign(b.m), Abs(a.m), Abs(b.m), a.e - b.e)

\* hi + lo for finite hi, lo with hi.e >= lo.e
AddAligned(hi, lo) ==
    IF hi.e - lo.e > MantBits + 2 THEN hi
    ELSE RoundRat(Sign(hi.m * (2 ^ (hi.e - lo.e)) + lo.m),
                  Abs(hi.m * (2 ^ (hi.e - lo.e)) + lo.m), 1, lo.e)

FAdd(a, b) ==
    IF IsNaN(a) \/ IsNaN(b) THEN NaN
    ELSE IF IsInf(a) THEN (IF IsInf(b) /\ a.m # b.m THEN NaN ELSE a)
    ELSE IF IsInf(b) THEN b
    ELSE IF a.e >= b.e THEN AddAligned(a, b)
    ELSE AddAligned(b, a)

FSub(a, b) == FAdd(a, FNeg(b))

\* a < b on f64 (false when either is NaN)
FLt(a, b) ==
    IF IsNaN(a) \/ IsNaN(b) THEN FALSE
    ELSE IF IsInf(a) THEN a.m < 0 /\ b # NInf
    ELSE IF IsInf(b) THEN b.m > 0
    ELSE IF a.m < 0 /\ b.m >= 0 THEN TRUE
    ELSE IF a.m >= 0 /\ b.m < 0 THEN FALSE
    ELSE IF a.m >= 0 THEN a.e < b.e \/ (a.e = b.e /\ a.m < b.m)
    ELSE a.e > b.e \/ (a.e = b.e /\ a.m < b.m)

FEq(a, b) == ~IsNaN(a) /\ ~IsNaN(b) /\ a = b
FGe(a, b) == FLt(b, a) \/ FEq(a, b)
FLe(a, b) == FLt(a, b) \/ FEq(a, b)
FGt(a, b) == FLt(b, a)

\* f64::min: the other argument when one is NaN
FMin(a, b) ==
    IF IsNaN(a) THEN b
    ELSE IF IsNaN(b) THEN a
    ELSE IF FLt(b, a) THEN b ELSE a

F0 == FromInt(0)
F1 == FromInt(1)

None == [some |-> FALSE, v |-> F0]
Some(x) == [some |-> TRUE, v |-> x]

\* f64::MAX
F64_MAX == Fin(TwoP - 1, EMax)

\* the power series of e^x for 0 <= x <= 1, up to the term x^MantBits / MantBits!
RECURSIVE exp_series(_, _, _, _)
exp_term(x, k, term, acc) == exp_series(x, k + 1, term, FAdd(acc, term))
exp_series(x, k, term, acc) ==
    IF k > MantBits THEN acc
    ELSE exp_term(x, k, FDiv(FMul(term, x), FromInt(k)), acc)

Square(a) == FMul(a, a)

\* e^x for x >= 0: the argument is halved until the series applies
RECURSIVE exp_pos(_)
exp_pos(x) ==
    IF FGt(x, F1)
    THEN Square(exp_pos(FDiv(x, FromInt(2))))
    ELSE exp_series(x, 1, F1, F1)

\* f64::exp
FExp(x) ==
    IF IsNaN(x) THEN NaN
    ELSE IF IsInf(x) THEN (IF x.m > 0 THEN PInf ELSE FZero)
    ELSE IF IsZero(x) THEN F1
    ELSE IF x.m < 0 THEN FDiv(F1, exp_pos(FNeg(x)))
    ELSE exp_pos(x)

(***************************************************************************)
(* cooling_schedule.rs                                                     *)
(***************************************************************************)
RECURSIVE ilog2(_)
ilog2(n) == IF n < 2 THEN 0 ELSE 1 + ilog2(n \div 2)

RECURSIVE is_power_of_two(_)
is_power_of_two(n) ==
    IF n = 1 THEN TRUE
    ELSE IF n % 2 = 1 THEN FALSE
    ELSE is_power_of_two(n \div 2)

\* the logarithm rounded down for every n
log_floor(cfg) == ilog2(cfg.n)

\* CoolingConfig::log
log(cfg) == ilog2(cfg.n) + (IF is_power_of_two(cfg.n) THEN 0 ELSE 1)

CoolingConfig(n, ra, rm) ==
    [n |-> n, additive_ratio |-> ra, multiplicative_ratio |-> rm]

Additive(current, target) ==
    [kind |-> "Additive", current |-> current, target |-> target,
     value |-> F0, factor |-> F0, times |-> 0]
Multiplicative(current, factor, times, target) ==
    [kind |-> "Multiplicative", current |-> 0, target |-> target,
     value |-> current, factor |-> factor, times |-> times]
Infinite ==
    [kind |-> "Infinite", current |-> 0, target |-> 0,
     value |-> F0, factor |-> F0, times |-> 0]

\* impl From<CoolingConfig> for CoolingSchedule
CoolingScheduleFrom(cfg) ==
    [config |-> cfg,
     state |-> Additive(0, cfg.additive_ratio * cfg.n * log(cfg))]

\* the state the additive phase moves to
AdditiveStep(cfg, current, target, value) ==
    IF current = target
    THEN LET lg == log(cfg)
             tg == lg * lg * cfg.n * cfg.multiplicative_ratio
             gamma == FAdd(F1, FDiv(F1, FromInt(cfg.n * lg * cfg.multiplicative_ratio)))
         IN  Multiplicative(FMul(value, gamma), gamma, 1, tg)
    ELSE Additive(current + 1, target)

\* the state the multiplicative phase moves to
MultiplicativeStep(current, factor, times, target) ==
    IF times = target
    THEN Infinite
    ELSE Multiplicative(FMul(current, factor), factor, times + 1, target)

\* CoolingSchedule::next: <<the value returned, the new state>>
next(sch) ==
    LET cfg == sch.config
        st == sch.state
    IN  CASE st.kind = "Additive" ->
               LET value == FDiv(FromInt(st.current), FromInt(cfg.n * cfg.additive_ratio))
               IN  <<Some(value), AdditiveStep(cfg, st.current, st.target, value)>>
          [] st.kind = "Multiplicative" ->
               <<Some(st.value), MultiplicativeStep(st.value, st.factor, st.times, st.target)>>
          [] OTHER -> <<None, Infinite>>

\* the counts of section 4.9
K_a(cfg) == cfg.additive_ratio * cfg.n * log(cfg)
K_m(cfg) == log(cfg) * log(cfg) * cfg.n * cfg.multiplicative_ratio
Total(cfg) == K_a(cfg) + 1 + K_m(cfg)

\* one call of next by the schedule's consumer
ScheduleNext ==
    /\ calls < Total(schedule.config) + MaxExtraCalls
    /\ LET r == next(schedule)
       IN  /\ schedule' = [schedule EXCEPT !.state = r[2]]
           /\ ret' = r[1]
           /\ prev' = IF r[1].some THEN ret ELSE prev
           /\ yielded' = IF r[1].some THEN yielded + 1 ELSE yielded
    /\ calls' = calls + 1
    /\ UNCHANGED notScheduleVars

(***************************************************************************)
(* dinic.rs                                                                *)
(***************************************************************************)
USIZE_MAX == 2147483647
ISIZE_MAX == 2147483647

Edge(from, to, cap) == [points |-> <<from, to>>, cap |-> cap, flow |-> 0]

\* DinicGraph::new
DinicGraphNew(n, source, sink) ==
    [flow |-> 0,
     adjacency |-> [v \in 0..(n - 1) |-> <<>>],
     edges |-> <<>>,
     level |-> [v \in 0..(n - 1) |-> USIZE_MAX],
     pointer |-> [v \in 0..(n - 1) |-> 0],
     source |-> source,
     sink |-> sink]

\* edges[id] of the 0-indexed edge storage
EdgeAt(g, id) == g.edges[id + 1]

\* id ^ 1
Xor1(id) == IF id % 2 = 0 THEN id + 1 ELSE id - 1

\* cap - flow of edge id
Residual(g, id) == EdgeAt(g, id).cap - EdgeAt(g, id).flow

\* reset as it would be without `self.pointer.fill(0)`
reset_levels_only(g) ==
    [g EXCEPT !.level = [v \in DOMAIN g.level |-> USIZE_MAX]]

\* DinicGraph::reset
reset(g) ==
    [g EXCEPT !.level = [v \in DOMAIN g.level |-> USIZE_MAX],
              !.pointer = [v \in DOMAIN g.pointer |-> 0]]

\* add_edge as it would be if the reverse edge kept the direction of the
\* forward edge
add_edge_unswapped(g, from, to, cap) ==
    LET m == Len(g.edges)
        es == Append(Append(g.edges, Edge(from, to, cap)), Edge(from, to, 0))
        adj1 == [g.adjacency EXCEPT ![from] = Append(@, m)]
        adj2 == [adj1 EXCEPT ![to] = Append(@, m + 1)]
    IN  [g EXCEPT !.edges = es, !.adjacency = adj2]

\* DinicGraph::add_edge
add_edge(g, from, to, cap) ==
    LET m == Len(g.edges)
        es == Append(Append(g.edges, Edge(from, to, cap)), Edge(to, from, 0))
        adj1 == [g.adjacency EXCEPT ![from] = Append(@, m)]
        adj2 == [adj1 EXCEPT ![to] = Append(@, m + 1)]
    IN  [g EXCEPT !.edges = es, !.adjacency = adj2]

\* the `for id in adjacency[v]` loop of bfs from position i on:
\* <<queue, level>> after it
RECURSIVE bfs_for(_, _, _, _, _)
bfs_for(g, v, i, queue, level) ==
    IF i > Len(g.adjacency[v]) THEN <<queue, level>>
    ELSE LET id == g.adjacency[v][i]
             to == EdgeAt(g, id).points[2]
         IN  IF Residual(g, id) < 1 THEN bfs_for(g, v, i + 1, queue, level)
             ELSE IF level[to] # USIZE_MAX THEN bfs_for(g, v, i + 1, queue, level)
             ELSE bfs_for(g, v, i + 1, Append(queue, to),
                          [level EXCEPT ![to] = level[v] + 1])

\* the `while let Some(v) = queue.pop_front()` loop of bfs
RECURSIVE bfs_while(_, _, _)
bfs_while(g, queue, level) ==
    IF queue = <<>> THEN level
    ELSE LET r == bfs_for(g, Head(queue), 1, Tail(queue), level)
         IN  bfs_while(g, r[1], r[2])

\* DinicGraph::bfs: [found, g]
bfs(g) ==
    LET level == bfs_while(g, <<g.source>>, [g.level EXCEPT ![g.source] = 0])
    IN  [found |-> level[g.sink] # USIZE_MAX, g |-> [g EXCEPT !.level = level]]

Min(a, b) == IF a < b THEN a ELSE b

\* the flow update as it would be without `self.edges[id ^ 1].flow -= update`
push_forward_only(g, id, update) ==
    [g EXCEPT !.edges[id + 1].flow = @ + update]

\* the flow update of dfs on edge id and its reverse
push(g, id, update) ==
    [g EXCEPT !.edges[id + 1].flow = @ + update,
              !.edges[Xor1(id) + 1].flow = @ - update]

\* DinicGraph::dfs: [update, g]
RECURSIVE dfs(_, _, _)
RECURSIVE dfs_while(_, _, _)
dfs(g, v, budget) ==
    IF budget = 0 THEN [update |-> 0, g |-> g]
    ELSE IF v = g.sink THEN [update |-> budget, g |-> g]
    ELSE dfs_while(g, v, budget)

dfs_while(g, v, budget) ==
    IF g.pointer[v] < Len(g.adjacency[v])
    THEN LET cid == g.pointer[v]
             g1 == [g EXCEPT !.pointer[v] = @ + 1]
             id == g.adjacency[v][cid + 1]
             u == EdgeAt(g, id).points[2]
             space == Residual(g, id)
         IN  IF g.level[v] + 1 # g.level[u] \/ space < 1
             THEN dfs_while(g1, v, budget)
             ELSE LET r == dfs(g1, u, Min(budget, space))
                  IN  IF r.update < 1
                      THEN dfs_while(r.g, v, budget)
                      ELSE [update |-> r.update, g |-> push(r.g, id, r.update)]
    ELSE [update |-> 0, g |-> g]

\* DinicGraph::current_flow: the forward edges with positive flow, in order
RECURSIVE current_flow_from(_, _)
current_flow_from(g, id) ==
    IF id >= Len(g.edges) THEN <<>>
    ELSE LET e == EdgeAt(g, id)
             rest == current_flow_from(g, id + 2)
         IN  IF e.flow < 1 THEN rest
             ELSE <<<<e.points[1], e.points[2], e.flow>>>> \o rest

current_flow(g) == current_flow_from(g, 0)

(***************************************************************************)
(* graph.rs                                                                *)
(***************************************************************************)
Graph(size, edges) == [size |-> size, edges |-> edges]

\* the first loop of as_shuffled_dinic_graph, from i on
RECURSIVE add_terminal_edges(_, _, _)
add_terminal_edges(g, i, size) ==
    IF i >= size THEN g
    ELSE add_terminal_edges(
             add_edge(add_edge(g, 2 * size, i, 1), i + size, 2 * size + 1, 1),
             i + 1, size)

\* the loop over graph.edges of as_shuffled_dinic_graph, from edges[u][k] on
RECURSIVE add_graph_edges(_, _, _, _, _, _)
add_graph_edges(g, gr, u, k, left_shuffle, right_shuffle) ==
    IF u >= Len(gr.edges) THEN g
    ELSE IF k > Len(gr.edges[u + 1])
         THEN add_graph_edges(g, gr, u + 1, 1, left_shuffle, right_shuffle)
    ELSE LET v == gr.edges[u + 1][k]
         IN  add_graph_edges(
                 add_edge(g, left_shuffle[u + 1], right_shuffle[v + 1] + gr.size, 1),
                 gr, u, k + 1, left_shuffle, right_shuffle)

\* decode as it would be if the shuffle were stored without inverting it
decode_uninverted(shuffle) == [i \in 1..Len(shuffle) |-> shuffle[i]]

\* the decode loops: decode[shuffle[i]] = i, from i on
RECURSIVE decode_from(_, _, _)
decode_from(decode, shuffle, i) ==
    IF i >= Len(shuffle) THEN decode
    ELSE decode_from([decode EXCEPT ![shuffle[i + 1] + 1] = i], shuffle, i + 1)

decode(shuffle) == decode_from([i \in 1..Len(shuffle) |-> 0], shuffle, 0)

\* Graph::as_shuffled_dinic_graph, the rng's two shuffles given
as_shuffled_dinic_graph(gr, left_shuffle, right_shuffle) ==
    LET src == 2 * gr.size
        sink == 2 * gr.size + 1
        g0 == DinicGraphNew(2 * gr.size + 2, src, sink)
        g1 == add_terminal_edges(g0, 0, gr.size)
    IN  [graph |-> add_graph_edges(g1, gr, 0, 1, left_shuffle, right_shuffle),
         left |-> decode(left_shuffle),
         right |-> decode(right_shuffle)]

\* ShuffledDinicGraph::current_flow over the flow `flows` of the inner graph
RECURSIVE shuffled_filter_map(_, _, _)
shuffled_filter_map(flows, left, right) ==
    IF flows = <<>> THEN <<>>
    ELSE LET x == Head(flows)
             rest == shuffled_filter_map(Tail(flows), left, right)
         IN  IF x[1] < Len(left)
             THEN <<<<left[x[1] + 1], right[x[2] - Len(right) + 1]>>>> \o rest
             ELSE rest

shuffled_current_flow(g, sh) == shuffled_filter_map(current_flow(g), sh.left, sh.right)

(***************************************************************************)
(* The max-flow state machine: add_edge calls, then calculate_flow, one    *)
(* bfs or one dfs from the source per step.                                *)
(***************************************************************************)
RECURSIVE add_edges(_, _)
add_edges(g, es) ==
    IF es = <<>> THEN g
    ELSE add_edges(add_edge(g, Head(es)[1], Head(es)[2], Head(es)[3]), Tail(es))

\* test::maxflow_example
TextbookEdges ==
    << <<0, 1, 16>>, <<0, 2, 13>>, <<1, 2, 10>>, <<1, 3, 12>>, <<2, 1, 4>>,
       <<2, 4, 14>>, <<3, 2, 9>>, <<3, 5, 20>>, <<4, 3, 7>>, <<4, 5, 4>> >>
Textbook == add_edges(DinicGraphNew(6, 0, 5), TextbookEdges)

NoGraph == Graph(0, <<>>)
NoShuffle == [left |-> <<>>, right |-> <<>>]

\* the capacity leaving the source: no flow exceeds it
RECURSIVE source_cap_from(_, _)
source_cap_from(g, id) ==
    IF id >= Len(g.edges) THEN 0
    ELSE (IF EdgeAt(g, id).points[1] = g.source THEN EdgeAt(g, id).cap ELSE 0)
         + source_cap_from(g, id + 2)
SourceCap(g) == source_cap_from(g, 0)

\* one add_edge call while the network is built
AddEdge ==
    /\ pc = "build"
    /\ Len(dinic.edges) < 2 * MaxEdges
    /\ \E from \in DOMAIN dinic.adjacency, to \in DOMAIN dinic.adjacency, cap \in 0..MaxCap :
          dinic' = add_edge(dinic, from, to, cap)
    /\ UNCHANGED <<graph, shuffled, pc, result, phases>>
    /\ UNCHANGED notDinicVars

\* calculate_flow: the `while self.bfs()` test
Bfs ==
    /\ pc \in {"build", "bfs"}
    /\ phases <= SourceCap(dinic) + 1
    /\ LET r == bfs(dinic)
       IN  /\ dinic' = r.g
           /\ pc' = IF r.found THEN "dfs" ELSE "done"
           /\ result' = IF r.found THEN result ELSE dinic.flow
    /\ phases' = phases + 1
    /\ UNCHANGED <<graph, shuffled>>
    /\ UNCHANGED notDinicVars

\* calculate_flow: one turn of the inner loop
Dfs ==
    /\ pc = "dfs"
    /\ LET r == dfs(dinic, dinic.source, ISIZE_MAX)
       IN  IF r.update < 1
           THEN /\ dinic' = reset(r.g)
                /\ pc' = "bfs"
           ELSE /\ dinic' = [r.g EXCEPT !.flow = @ + r.update]
                /\ pc' = "dfs"
    /\ UNCHANGED <<graph, shuffled, result, phases>>
    /\ UNCHANGED notDinicVars

\* the sequences over S of length at most k
SeqsUpTo(S, k) == UNION {[1..m -> S] : m \in 0..k}

\* the shuffles of 0..n-1 the rng can produce
Shuffles(n) == {p \in [1..n -> 0..(n - 1)] : \A i, j \in 1..n : p[i] = p[j] => i = j}

RECURSIVE SumLen(_)
SumLen(ss) == IF ss = <<>> THEN 0 ELSE Len(Head(ss)) + SumLen(Tail(ss))

\* the input graphs of the model: edges[u] lists right vertices in [0, size)
Graphs ==
    UNION {{Graph(n, es) : es \in {x \in [1..n -> SeqsUpTo(0..(n - 1), MaxDegree)] :
                                        SumLen(x) <= MaxGraphEdges}} :
           n \in 1..MaxSize}

(***************************************************************************)
(* cooling_state.rs                                                        *)
(***************************************************************************)
\* the bits of one u64 word of BitMatrix::data
WordBits == 64

Matrix_new(size, initial) ==
    [size |-> size, data |-> [i \in 1..(size * size) |-> initial]]

Matrix_get(mx, u, v) == mx.data[u * mx.size + v + 1]

\* a word of data is the set of the positions of its one bits
BitMatrix_new(size) ==
    [size |-> size, data |-> [w \in 1..((size * size) \div WordBits + 1) |-> {}]]

BitMatrix_get(bm, u, v) ==
    ((u * bm.size + v) % WordBits) \in bm.data[(u * bm.size + v) \div WordBits + 1]

\* set as it would be if both branches did the `|=`
BitMatrix_set_or_only(bm, u, v, value) ==
    [bm EXCEPT !.data[(u * bm.size + v) \div WordBits + 1] =
        @ \cup {(u * bm.size + v) % WordBits}]

BitMatrix_set(bm, u, v, value) ==
    [bm EXCEPT !.data[(u * bm.size + v) \div WordBits + 1] =
        IF value THEN @ \cup {(u * bm.size + v) % WordBits}
        ELSE @ \ {(u * bm.size + v) % WordBits}]

\* State::from, the inner loop over the list of u
RECURSIVE set_row(_, _, _)
set_row(adjacency, u, vs) ==
    IF vs = <<>> THEN adjacency
    ELSE set_row(BitMatrix_set(adjacency, u, Head(vs), TRUE), u, Tail(vs))

\* State::from, the outer loop
RECURSIVE set_rows(_, _, _)
set_rows(adjacency, gr, u) ==
    IF u >= Len(gr.edges) THEN adjacency
    ELSE set_rows(set_row(adjacency, u, gr.edges[u + 1]), gr, u + 1)

StateFrom(gr) ==
    [adjacency |-> set_rows(BitMatrix_new(gr.size), gr, 0),
     weight |-> Matrix_new(gr.size, FromInt(gr.size)),
     beta |-> F0]

\* a BitMatrix of the given size before any call of set, and none
BitMatrixUnder(size) ==
    [bits |-> BitMatrix_new(size), before |-> BitMatrix_new(size),
     u |-> 0, v |-> 0, value |-> FALSE, sets |-> 0, from |-> "new"]
NoBitMatrix == BitMatrixUnder(0)

\* the ascending list of a set of vertices
RECURSIVE ascending(_)
ascending(S) ==
    IF S = {} THEN <<>>
    ELSE LET x == CHOOSE y \in S : \A z \in S : y <= z
         IN  <<x>> \o ascending(S \ {x})

\* the subsets of S of at most k elements
RECURSIVE SubsetsUpTo(_, _)
SubsetsUpTo(S, k) ==
    IF k = 0 THEN {{}}
    ELSE {P \cup T : P \in SubsetsUpTo(S, k - 1), T \in {{}} \cup {{x} : x \in S}}

\* the graphs of the given size with at most MaxBitEdges edges
BitGraphs(size) ==
    {Graph(size, [u \in 1..size |-> ascending({c[2] : c \in {d \in E : d[1] = u - 1}})]) :
        E \in SubsetsUpTo((0..(size - 1)) \X (0..(size - 1)), MaxBitEdges)}

\* one call of set on in-range cells, as in bitmatrix_test
BitMatrixSet ==
    /\ bitmatrix.from \in {"new", "set"}
    /\ bitmatrix.sets < MaxSets
    /\ \E u \in 0..(bitmatrix.bits.size - 1), v \in 0..(bitmatrix.bits.size - 1),
          value \in BOOLEAN :
          bitmatrix' = [bits |-> BitMatrix_set(bitmatrix.bits, u, v, value),
                        before |-> bitmatrix.bits,
                        u |-> u, v |-> v, value |-> value,
                        sets |-> bitmatrix.sets + 1, from |-> "set"]
    /\ UNCHANGED graph
    /\ UNCHANGED <<scheduleVars, chainVars>>
    /\ UNCHANGED <<shuffled, dinic, pc, result, phases>>
    /\ UNCHANGED <<step_budget, ratios, exit_code, product, step_log>>

\* State::from on a graph: the adjacency matrix it builds
BitMatrixFrom ==
    /\ bitmatrix.from = "new"
    /\ \E gr \in BitGraphs(bitmatrix.bits.size) :
          /\ graph' = gr
          /\ bitmatrix' = [bitmatrix EXCEPT !.bits = StateFrom(gr).adjacency,
                                            !.from = "graph"]
    /\ UNCHANGED <<scheduleVars, chainVars>>
    /\ UNCHANGED <<shuffled, dinic, pc, result, phases>>
    /\ UNCHANGED <<step_budget, ratios, exit_code, product, step_log>>

\* every edge taken for an edge of the graph
activity_of_any_edge(state, u, v) == 1

activity_of_edge(state, u, v) ==
    IF BitMatrix_get(state.adjacency, u, v) THEN 1 ELSE 0

active_count_of_match(state, matching) ==
    Cardinality({i \in 1..Len(matching.edges) :
        BitMatrix_get(state.adjacency, matching.edges[i][1], matching.edges[i][2])})

weight_of_edge(state, u, v) == Matrix_get(state.weight, u, v)

\* the f64 sum of an iterator: added in order, from 0.0
RECURSIVE weight_sum(_, _, _, _)
weight_sum(state, edges, i, acc) ==
    IF i > Len(edges) THEN acc
    ELSE weight_sum(state, edges, i + 1,
                    FAdd(acc, weight_of_edge(state, edges[i][1], edges[i][2])))

weight_of_match(state, matching) == weight_sum(state, matching.edges, 1, F0)

(***************************************************************************)
(* filter.rs                                                               *)
(***************************************************************************)
\* the MatchAttr of Constant, ()
Unit == [c |-> "unit", m |-> 0, e |-> 0]

Proposal(u1, v1, u2, v2) == [u1 |-> u1, v1 |-> v1, u2 |-> u2, v2 |-> v2]

ConstantRatio(attr, matching, proposal, state) == <<F1, Unit>>

\* Additive::ratio, the pair returned
AdditiveReturn(attr, new_attr, a, b, c, d) ==
    <<FDiv(FMul(FDiv(new_attr, attr), FAdd(c, d)), FAdd(a, b)), new_attr>>

AdditiveRatio(attr, matching, proposal, state) ==
    LET a == weight_of_edge(state, proposal.u1, proposal.v1)
        b == weight_of_edge(state, proposal.u2, proposal.v2)
        c == weight_of_edge(state, proposal.u1, proposal.v2)
        d == weight_of_edge(state, proposal.u2, proposal.v1)
    IN  AdditiveReturn(attr, FAdd(FAdd(FSub(FSub(attr, a), b), c), d), a, b, c, d)

\* Multiplicative::ratio, the loop over the edges that are not swapped
RECURSIVE others_loop(_, _, _, _, _, _, _, _, _)
others_loop(new_attr, edges, i, proposal, state, a, b, c, d) ==
    IF i > Len(edges) THEN new_attr
    ELSE LET u == edges[i][1]
             v == edges[i][2]
             w == weight_of_edge(state, u, v)
         IN  IF (u # proposal.u1 \/ v # proposal.v1) /\ (u # proposal.u2 \/ v # proposal.v2)
             THEN others_loop(
                      FAdd(FAdd(FSub(FSub(new_attr, FMul(w, a)), FMul(w, b)),
                                FMul(w, c)), FMul(w, d)),
                      edges, i + 1, proposal, state, a, b, c, d)
             ELSE others_loop(new_attr, edges, i + 1, proposal, state, a, b, c, d)

\* Multiplicative::ratio, the pair returned
MultiplicativeReturn(attr, new_attr, a, b, c, d) ==
    <<FDiv(FMul(FDiv(new_attr, attr), FMul(c, d)), FMul(a, b)), new_attr>>

MultiplicativeRatio(attr, matching, proposal, state) ==
    LET a == weight_of_edge(state, proposal.u1, proposal.v1)
        b == weight_of_edge(state, proposal.u2, proposal.v2)
        c == weight_of_edge(state, proposal.u1, proposal.v2)
        d == weight_of_edge(state, proposal.u2, proposal.v1)
    IN  MultiplicativeReturn(
            attr,
            FAdd(others_loop(attr, matching.edges, 1, proposal, state, a, b, c, d),
                 FSub(FSub(FAdd(FMul(c, c), FMul(d, d)), FMul(a, a)), FMul(b, b))),
            a, b, c, d)

\* T::ratio for the filter T
ratio(T, attr, matching, proposal, state) ==
    IF T = "Constant" THEN ConstantRatio(attr, matching, proposal, state)
    ELSE IF T = "Additive" THEN AdditiveRatio(attr, matching, proposal, state)
    ELSE MultiplicativeRatio(attr, matching, proposal, state)

\* Multiplicative::initial_attr, the two nested loops
RECURSIVE pairwise_loop(_, _, _, _, _)
pairwise_loop(attr, edges, i, k, state) ==
    IF i > Len(edges) THEN attr
    ELSE IF k > Len(edges) THEN pairwise_loop(attr, edges, i + 1, 1, state)
    ELSE pairwise_loop(
             FAdd(attr, FMul(weight_of_edge(state, edges[i][1], edges[i][2]),
                             weight_of_edge(state, edges[k][1], edges[k][2]))),
             edges, i, k + 1, state)

\* T::initial_attr for the filter T
initial_attr(T, matching, state) ==
    IF T = "Constant" THEN Unit
    ELSE IF T = "Additive" THEN weight_sum(state, matching.edges, 1, F0)
    ELSE pairwise_loop(F0, matching.edges, 1, 1, state)

Filters == {"Constant", "Additive", "Multiplicative"}

\* graph.rs, Match: the ordered list of the edges of a matching
Match(edges) == [edges |-> edges]

\* Match::random: a random permutation matching, edge i leaves left vertex i
Match_random(n) == {Match([i \in 1..n |-> <<i - 1, p[i]>>]) : p \in Shuffles(n)}

AugmentedMatch(matching, attr, weight, active_count) ==
    [matching |-> matching, attr |-> attr, weight |-> weight,
     active_count |-> active_count]

\* what choose_edge_pairs can return: two distinct positions, in either order
choose_edge_pairs(am) ==
    {<<p, q>> : p, q \in 0..(Len(am.matching.edges) - 1)} \
        {<<p, p>> : p \in 0..(Len(am.matching.edges) - 1)}

\* what choose_weighted_edge can return: an edge of positive weight
choose_weighted_edge(am, state) ==
    {e \in {am.matching.edges[i] : i \in 1..Len(am.matching.edges)} :
        FGt(weight_of_edge(state, e[1], e[2]), F0)}

\* choose_weighted fails on a negative or NaN weight and when no weight is positive
choose_weighted_fails(am, state) ==
    \/ \E i \in 1..Len(am.matching.edges) :
          LET w == weight_of_edge(state, am.matching.edges[i][1], am.matching.edges[i][2])
          IN  IsNaN(w) \/ FLt(w, F0)
    \/ choose_weighted_edge(am, state) = {}

\* the usize arithmetic of next_active_count, term by term
next_active_count(am, proposal, state) ==
    LET s1 == am.active_count - activity_of_edge(state, proposal.u1, proposal.v1)
        s2 == s1 - activity_of_edge(state, proposal.u2, proposal.v2)
        s3 == s2 + activity_of_edge(state, proposal.u1, proposal.v2)
        s4 == s3 + activity_of_edge(state, proposal.u2, proposal.v1)
    IN  [value |-> s4, underflow |-> s1 < 0 \/ s2 < 0]

\* the edges of the match after an accepted proposal
swap_edges_first_only(edges, position, proposal) ==
    [edges EXCEPT ![position[1] + 1] = <<proposal.u1, proposal.v2>>]

swap_edges(edges, position, proposal) ==
    [edges EXCEPT ![position[1] + 1] = <<proposal.u1, proposal.v2>>,
                  ![position[2] + 1] = <<proposal.u2, proposal.v1>>]

\* transit, the proposal read from the two positions
transit_proposal(am, position) ==
    Proposal(am.matching.edges[position[1] + 1][1], am.matching.edges[position[1] + 1][2],
             am.matching.edges[position[2] + 1][1], am.matching.edges[position[2] + 1][2])

transit_next_weight(am, proposal, state) ==
    FAdd(FAdd(FSub(FSub(am.weight,
                        weight_of_edge(state, proposal.u1, proposal.v1)),
                   weight_of_edge(state, proposal.u2, proposal.v2)),
              weight_of_edge(state, proposal.u1, proposal.v2)),
         weight_of_edge(state, proposal.u2, proposal.v1))

\* transit, from the three next values to the probability
transit_probability(am, proposal, state, r, next_weight, nac) ==
    [proposal |-> proposal,
     new_attr |-> r[2],
     next_weight |-> next_weight,
     next_active_count |-> nac.value,
     underflow |-> nac.underflow,
     probability |->
         FMin(FMul(FMul(r[1], FDiv(next_weight, am.weight)),
                   FExp(FMul(state.beta, FromInt(nac.value - am.active_count)))),
              F1)]

transit_values(T, am, proposal, state) ==
    transit_probability(am, proposal, state,
                        ratio(T, am.attr, am.matching, proposal, state),
                        transit_next_weight(am, proposal, state),
                        next_active_count(am, proposal, state))

\* the locals of transit up to the random draw
transit_locals(T, am, position, state) ==
    transit_values(T, am, transit_proposal(am, position), state)

\* the outcomes of rand::random::<f64>() < probability, the draw being in [0, 1)
rand_below(probability) ==
    {b \in BOOLEAN : (b => FGt(probability, F0)) /\ (~b => ~FGe(probability, F1))}

\* transit from the random draw on, l being its locals
transit(am, position, l, below) ==
    IF below
    THEN AugmentedMatch(Match(swap_edges(am.matching.edges, position, l.proposal)),
                        l.new_attr, l.next_weight, l.next_active_count)
    ELSE am

\* rejection_sample, after its transitions: the active count, or nothing
rejection_sample(am, accepted) ==
    IF accepted THEN [some |-> TRUE, v |-> am.active_count]
    ELSE [some |-> FALSE, v |-> 0]

(***************************************************************************)
(* markov_chain.rs                                                         *)
(***************************************************************************)
Config(nc, wt, wsi, esi, nw, ne) ==
    [num_of_chains |-> nc, warmup_times |-> wt,
     weight_sample_intervals |-> wsi, estimator_sample_intervals |-> esi,
     num_of_weight_estimations |-> nw, num_of_estimator_estimations |-> ne]

AtomicMatrix_new(size) == [size |-> size, data |-> [i \in 1..(size * size) |-> 0]]

\* an increment that forgets the increments before it
AtomicMatrix_inc_lost(am, u, v) == [am EXCEPT !.data[u * am.size + v + 1] = 1]

AtomicMatrix_inc(am, u, v) == [am EXCEPT !.data[u * am.size + v + 1] = @ + 1]

\* the ways a parallel sum can split lo..hi into halves, each a list of the
\* split points in preorder
RECURSIVE Shapes(_, _)
Shapes(lo, hi) ==
    IF lo >= hi THEN {<<>>}
    ELSE UNION {{<<k>> \o l \o r : l \in Shapes(lo, k), r \in Shapes(k + 1, hi)} :
                k \in lo..(hi - 1)}

\* the f64 sum of xs[lo..hi] along a shape: <<the sum, the rest of the shape>>
RECURSIVE TreeSum(_, _, _, _)
TreeAdd(l, r) == <<FAdd(l[1], r[1]), r[2]>>
TreeJoin(xs, hi, k, l) == TreeAdd(l, TreeSum(xs, k + 1, hi, l[2]))
TreeSum(xs, lo, hi, shape) ==
    IF lo > hi THEN <<F0, shape>>
    ELSE IF lo = hi THEN <<xs[lo], shape>>
    ELSE TreeJoin(xs, hi, Head(shape), TreeSum(xs, lo, Head(shape), Tail(shape)))

Max(a, b) == IF a >= b THEN a ELSE b

\* the counter raised by one instead of floored at one
finish_value_raised(am, state, i, j) ==
    FDiv(FromInt(am.data[i * am.size + j + 1] + 1), weight_of_edge(state, i, j))

\* finish, the value stored in cell (i, j) before the transform
finish_value(am, state, i, j) ==
    FDiv(FromInt(Max(am.data[i * am.size + j + 1], 1)), weight_of_edge(state, i, j))

\* finish, the sum of row i
RECURSIVE finish_row_sum(_, _, _, _, _)
finish_row_sum(am, state, i, j, sum) ==
    IF j >= am.size THEN sum
    ELSE finish_row_sum(am, state, i, j + 1, FAdd(sum, finish_value(am, state, i, j)))

\* the cap of a cell
finish_cap(size) == FDiv(F64_MAX, FromInt(2 * size))

\* AtomicMatrix::finish, the rows being summed along shape
\* finish, the transform of the matrix by the scale
finish_transform(am, state, scale) ==
    [size |-> am.size,
     data |-> [x \in 1..(am.size * am.size) |->
                  FMin(FDiv(F1, FMul(finish_value(am, state, (x - 1) \div am.size,
                                                   (x - 1) % am.size), scale)),
                       finish_cap(am.size))]]

finish(am, state, shape) ==
    finish_transform(am, state,
        FDiv(FromInt(am.size),
             TreeSum([i \in 1..am.size |-> finish_row_sum(am, state, i - 1, 0, F0)],
                     1, am.size, shape)[1]))

\* the picks of the chains at the start of an evolve call, and before any call
StepLog(nc, weight) ==
    [picks |-> [c \in 1..nc |-> [i \in 1..(weight.size * weight.size) |-> 0]],
     weight |-> weight]
NoStepLog == StepLog(0, Matrix_new(0, F0))

\* main.rs: run_chain passes recompute = false, cooling_evolve passes penalty = 0.0
Recompute == FALSE
Penalty == F0

\* the closure of one chain: the loop it is in, the iterations done, the
\* transitions done in the running transit_n_times, and its two sums
Worker(stage, i, t) ==
    [stage |-> stage, i |-> i, t |-> t, local_sample_count |-> F0, local_sum |-> F0]

\* the closure leaves a loop whose bound is met
Advance(cfg, w) ==
    LET a == IF w.stage = "weight" /\ w.i >= cfg.num_of_weight_estimations
             THEN [w EXCEPT !.stage = "estimator", !.i = 0, !.t = 0]
             ELSE w
    IN  IF a.stage = "estimator" /\ a.i >= cfg.num_of_estimator_estimations
        THEN [a EXCEPT !.stage = "done", !.i = 0, !.t = 0]
        ELSE a

\* MCState::new, one chain
new_chain(T, matching, state) ==
    AugmentedMatch(matching, initial_attr(T, matching, state),
                   weight_of_match(state, matching),
                   active_count_of_match(state, matching))

\* usize multiplication of the release profile: the product modulo 2^w
UsizeRange == 2 ^ UsizeBits
mul_overflows(a, b) == a * b >= UsizeRange
wrapping_mul(a, b) == (a * b) % UsizeRange

\* (1..=n).product::<usize>() from factor i on, acc being the product so far
RECURSIVE product_from(_, _, _)
product_from(acc, i, n) ==
    IF i > n THEN acc ELSE product_from(wrapping_mul(acc, i), i + 1, n)

\* cooling_evolve, `(1..=self.size).product::<usize>()` of the release profile
factorial(n) == product_from(1, 1, n)

\* the fold before its first factor, and no fold
Product(n) == [size |-> n, i |-> 1, acc |-> 1, wrapped |-> FALSE, stage |-> "fold"]
NoProduct == [size |-> 0, i |-> 1, acc |-> 1, wrapped |-> FALSE, stage |-> "idle"]

\* the fold takes its next factor; a product that does not fit the word
\* wraps (release profile) or panics (debug profile)
ProductStep ==
    /\ product.stage = "fold"
    /\ product.i <= product.size
    /\ IF mul_overflows(product.acc, product.i)
       THEN \/ /\ product' = [product EXCEPT !.acc = wrapping_mul(product.acc, product.i),
                                             !.i = @ + 1, !.wrapped = TRUE]
               /\ UNCHANGED panic
            \/ /\ product' = [product EXCEPT !.stage = "panicked"]
               /\ panic' = "attempt to multiply with overflow"
       ELSE /\ product' = [product EXCEPT !.acc = wrapping_mul(product.acc, product.i),
                                          !.i = @ + 1]
            /\ UNCHANGED panic
    /\ UNCHANGED <<filter, config, global_state, chains, matrix, workers, mc_pc,
                   next_beta, estimator, steps, swapped, evolve_ret, count_scale, scaled>>
    /\ UNCHANGED <<scheduleVars, dinicVars, step_budget, ratios, exit_code, bitmatrix, step_log>>

\* the fold is over: `as f64` and `let mut estimator = factorial`
ProductEnd ==
    /\ product.stage = "fold"
    /\ product.i > product.size
    /\ product' = [product EXCEPT !.stage = "done"]
    /\ estimator' = FromInt(product.acc)
    /\ UNCHANGED <<filter, config, global_state, chains, matrix, workers, mc_pc,
                   next_beta, steps, swapped, panic, evolve_ret, count_scale, scaled>>
    /\ UNCHANGED <<scheduleVars, dinicVars, step_budget, ratios, exit_code, bitmatrix, step_log>>

\* chain c calls transit on position, l being the locals of the call
TransitCall(c, position, l) ==
    IF l.underflow
    THEN /\ panic' = "attempt to subtract with overflow"
         /\ swapped' = 0
         /\ UNCHANGED chains
    ELSE \E below \in rand_below(l.probability) :
            /\ chains' = [chains EXCEPT ![c] = transit(@, position, l, below)]
            /\ swapped' = IF below THEN c ELSE 0
            /\ UNCHANGED panic

\* one iteration of transit_n_times by chain c
TransitStep(c) ==
    IF Len(chains[c].matching.edges) < 2
    THEN /\ panic' = "index out of bounds"
         /\ swapped' = 0
         /\ UNCHANGED chains
    ELSE \E position \in choose_edge_pairs(chains[c]) :
            TransitCall(c, position,
                        transit_locals(filter, chains[c], position, global_state))

\* evolve, the body of `if let Some(sample)`: the two sums of the closure
add_sample(w, sample, diff, importance) ==
    IF sample.some
    THEN [w EXCEPT
            !.local_sample_count = FAdd(@, importance),
            !.local_sum = FAdd(@, FMul(FExp(FMul(diff, FromInt(sample.v))), importance))]
    ELSE w

\* warmup: chain c makes one of its warmup_times transitions
WarmupTransit ==
    /\ mc_pc = "warmup"
    /\ panic = ""
    /\ \E c \in 1..Len(chains) :
          /\ workers[c].t < config.warmup_times
          /\ TransitStep(c)
          /\ workers' = [workers EXCEPT ![c].t = @ + 1]
    /\ UNCHANGED <<filter, config, global_state, matrix, mc_pc, next_beta, estimator,
                   steps, evolve_ret, count_scale, scaled>>
    /\ UNCHANGED <<scheduleVars, dinicVars, runVars>>

\* cooling_evolve up to its loop: the factorial, and the first value of the
\* schedule taken and dropped
CoolingEvolveEnter ==
    /\ mc_pc = "warmup"
    /\ panic = ""
    /\ \A c \in 1..Len(chains) : workers[c].t = config.warmup_times
    /\ estimator' = FromInt(factorial(global_state.weight.size))
    /\ schedule' = [schedule EXCEPT !.state = next(schedule)[2]]
    /\ ret' = next(schedule)[1]
    /\ prev' = IF ret'.some THEN ret ELSE prev
    /\ yielded' = IF ret'.some THEN yielded + 1 ELSE yielded
    /\ calls' = calls + 1
    /\ mc_pc' = "cooling"
    /\ swapped' = 0
    /\ UNCHANGED <<filter, config, global_state, chains, matrix, workers, next_beta,
                   steps, panic, evolve_ret, count_scale, scaled>>
    /\ UNCHANGED <<dinicVars, runVars>>

\* the loop of cooling_evolve takes the next value and evolve starts, or the
\* schedule has ended and cooling_evolve returns the estimator
EvolveBegin ==
    /\ mc_pc = "cooling"
    /\ panic = ""
    /\ steps < step_budget
    /\ LET r == next(schedule)
       IN  /\ schedule' = [schedule EXCEPT !.state = r[2]]
           /\ ret' = r[1]
           /\ prev' = IF r[1].some THEN ret ELSE prev
           /\ yielded' = IF r[1].some THEN yielded + 1 ELSE yielded
           /\ calls' = calls + 1
           /\ IF r[1].some
              THEN /\ mc_pc' = "evolve"
                   /\ next_beta' = r[1].v
                   /\ matrix' = AtomicMatrix_new(global_state.weight.size)
                   /\ chains' = [c \in 1..Len(chains) |->
                          IF Recompute
                          THEN [chains[c] EXCEPT
                                   !.weight = weight_of_match(global_state, chains[c].matching),
                                   !.attr = initial_attr(filter, chains[c].matching,
                                                         global_state)]
                          ELSE chains[c]]
                   /\ workers' = [c \in 1..Len(chains) |->
                                     Advance(config, Worker("weight", 0, 0))]
                   /\ step_log' = StepLog(Len(chains), global_state.weight)
              ELSE /\ mc_pc' = "returned"
                   /\ UNCHANGED <<next_beta, matrix, chains, workers, step_log>>
    /\ swapped' = 0
    /\ UNCHANGED <<filter, config, global_state, estimator, steps, panic, evolve_ret,
                   count_scale, scaled>>
    /\ UNCHANGED <<dinicVars, step_budget, ratios, exit_code, product, bitmatrix>>

\* evolve, weight sub-phase: chain c makes one transition of transit_n_times
WeightTransit ==
    /\ mc_pc = "evolve"
    /\ panic = ""
    /\ \E c \in 1..Len(chains) :
          /\ workers[c].stage = "weight"
          /\ workers[c].t < config.weight_sample_intervals
          /\ TransitStep(c)
          /\ workers' = [workers EXCEPT ![c].t = @ + 1]
    /\ UNCHANGED <<filter, config, global_state, matrix, mc_pc, next_beta, estimator,
                   steps, evolve_ret, count_scale, scaled>>
    /\ UNCHANGED <<scheduleVars, dinicVars, runVars>>

\* evolve, weight sub-phase: chain c draws an edge and increments its counter
WeightSample ==
    /\ mc_pc = "evolve"
    /\ panic = ""
    /\ \E c \in 1..Len(chains) :
          /\ workers[c].stage = "weight"
          /\ workers[c].t = config.weight_sample_intervals
          /\ IF choose_weighted_fails(chains[c], global_state)
             THEN /\ panic' = "failed to choose weighted edge"
                  /\ UNCHANGED <<matrix, workers, step_log>>
             ELSE /\ \E sample \in choose_weighted_edge(chains[c], global_state) :
                        /\ matrix' = AtomicMatrix_inc(matrix, sample[1], sample[2])
                        /\ step_log' = [step_log EXCEPT
                               !.picks[c][sample[1] * matrix.size + sample[2] + 1] = @ + 1]
                  /\ workers' = [workers EXCEPT
                         ![c] = Advance(config, [@ EXCEPT !.i = @ + 1, !.t = 0])]
                  /\ UNCHANGED panic
    /\ swapped' = 0
    /\ UNCHANGED <<filter, config, global_state, chains, mc_pc, next_beta, estimator,
                   steps, evolve_ret, count_scale, scaled>>
    /\ UNCHANGED <<scheduleVars, dinicVars, step_budget, ratios, exit_code, product,
                   bitmatrix>>

\* evolve, estimator sub-phase: chain c makes one transition of rejection_sample
EstimatorTransit ==
    /\ mc_pc = "evolve"
    /\ panic = ""
    /\ \E c \in 1..Len(chains) :
          /\ workers[c].stage = "estimator"
          /\ workers[c].t < config.estimator_sample_intervals
          /\ TransitStep(c)
          /\ workers' = [workers EXCEPT ![c].t = @ + 1]
    /\ UNCHANGED <<filter, config, global_state, matrix, mc_pc, next_beta, estimator,
                   steps, evolve_ret, count_scale, scaled>>
    /\ UNCHANGED <<scheduleVars, dinicVars, runVars>>

\* evolve, estimator sub-phase: rejection_sample returns to chain c, which
\* adds an accepted sample to its two sums
EstimatorSample ==
    /\ mc_pc = "evolve"
    /\ panic = ""
    /\ \E c \in 1..Len(chains), accepted \in BOOLEAN :
          /\ workers[c].stage = "estimator"
          /\ workers[c].t = config.estimator_sample_intervals
          /\ workers' = [workers EXCEPT
                 ![c] = Advance(config,
                            [add_sample(@, rejection_sample(chains[c], accepted),
                                        FSub(global_state.beta, next_beta),
                                        FExp(FMul(FromInt(chains[c].active_count), Penalty)))
                                EXCEPT !.i = @ + 1, !.t = 0])]
    /\ swapped' = 0
    /\ UNCHANGED <<filter, config, global_state, chains, matrix, mc_pc, next_beta,
                   estimator, steps, panic, evolve_ret, count_scale, scaled>>
    /\ UNCHANGED <<scheduleVars, dinicVars, runVars>>

\* the sum of the AddPairs of the closures along shape
global_sum(ws, shape) ==
    <<TreeSum([c \in 1..Len(ws) |-> ws[c].local_sample_count], 1, Len(ws), shape)[1],
      TreeSum([c \in 1..Len(ws) |-> ws[c].local_sum], 1, Len(ws), shape)[1]>>

\* the quotient of the sums without the comparison before it
evolve_return_unclamped(sum) == FDiv(sum[2], sum[1])

\* evolve, its last expression
evolve_return(sum) == IF FGe(sum[2], sum[1]) THEN F1 ELSE FDiv(sum[2], sum[1])

\* the estimator of cooling_evolve replaced by the ratio
estimator_set(estimator_, ratio_) == ratio_

\* cooling_evolve, `estimator *= ratio`
estimator_mul(estimator_, ratio_) == FMul(estimator_, ratio_)

\* evolve once every chain is through: the sums are added up, finish installs
\* the new weights, the ratio is returned; cooling_evolve multiplies the
\* estimator by it and sets beta
EvolveEnd ==
    /\ mc_pc = "evolve"
    /\ panic = ""
    /\ \A c \in 1..Len(chains) : workers[c].stage = "done"
    /\ \E cs \in Shapes(1, Len(chains)), rs \in Shapes(1, matrix.size) :
          /\ global_state' = [global_state EXCEPT
                 !.weight = finish(matrix, global_state, rs),
                 !.beta = next_beta]
          /\ evolve_ret' = evolve_return(global_sum(workers, cs))
          /\ estimator' = estimator_mul(estimator, evolve_ret')
          /\ ratios' = Append(ratios, evolve_ret')
    /\ mc_pc' = "cooling"
    /\ steps' = steps + 1
    /\ swapped' = 0
    /\ UNCHANGED <<filter, config, chains, matrix, workers, next_beta, panic,
                   count_scale, scaled>>
    /\ UNCHANGED <<scheduleVars, dinicVars, step_budget, exit_code, product, bitmatrix, step_log>>

\* a chain on its own under a fixed weight matrix: one call of transit
ChainTransit ==
    /\ mc_pc = "chain"
    /\ panic = ""
    /\ workers[1].t < MaxTransits
    /\ TransitStep(1)
    /\ workers' = [workers EXCEPT ![1].t = @ + 1]
    /\ UNCHANGED <<filter, config, global_state, matrix, mc_pc, next_beta, estimator,
                   steps, evolve_ret, count_scale, scaled>>
    /\ UNCHANGED <<scheduleVars, dinicVars, runVars>>

\* finish on a histogram, and on the same histogram with every counter
\* multiplied by count_scale
Finish ==
    /\ mc_pc = "finish"
    /\ \E rs \in Shapes(1, matrix.size) :
          /\ global_state' = [global_state EXCEPT
                 !.weight = finish(matrix, global_state, rs)]
          /\ scaled' = finish([matrix EXCEPT
                                  !.data = [i \in DOMAIN matrix.data |->
                                               count_scale * matrix.data[i]]],
                              global_state, rs)
    /\ mc_pc' = "finished"
    /\ UNCHANGED <<filter, config, chains, matrix, workers, next_beta, estimator,
                   steps, swapped, panic, evolve_ret, count_scale>>
    /\ UNCHANGED <<scheduleVars, dinicVars, runVars>>

(***************************************************************************)
(* main.rs: the driver between the loaded graph and run_chain.             *)
(***************************************************************************)
\* the process is running; it has ended with status c
Running == [over |-> FALSE, code |-> 0]
Exited(c) == [over |-> TRUE, code |-> c]

\* Graph::find_match: the match read off the maximum flow
find_match(g, sh) == Match(shuffled_current_flow(g, sh))

\* main from the find_match test on: it logs the error and returns, which ends
\* the process with status 0, or goes on to run_chain
Main ==
    /\ pc = "done"
    /\ ~exit_code.over
    /\ IF Len(find_match(dinic, shuffled).edges) # graph.size
       THEN /\ exit_code' = Exited(0)
            /\ pc' = "exit"
       ELSE /\ pc' = "run_chain"
            /\ UNCHANGED exit_code
    /\ UNCHANGED <<graph, shuffled, dinic, result, phases>>
    /\ UNCHANGED <<scheduleVars, chainVars, step_budget, ratios, product, bitmatrix, step_log>>

(***************************************************************************)
(* Specifications: one per component, the other components at rest.        *)
(***************************************************************************)
\* the state of no graph
NoState ==
    [adjacency |-> BitMatrix_new(0), weight |-> Matrix_new(0, F0), beta |-> F0]

\* a network under construction: a source, a sink, no edge yet
InitDinic ==
    /\ graph = NoGraph
    /\ shuffled = NoShuffle
    /\ \/ \E n \in 2..MaxNodes : dinic = DinicGraphNew(n, 0, n - 1)
       \/ dinic = Textbook
    /\ pc = "build"
    /\ result = 0
    /\ phases = 0
    \* no schedule
    /\ schedule = CoolingScheduleFrom(CoolingConfig(1, 1, 1))
    /\ ret = None
    /\ prev = None
    /\ yielded = 0
    /\ calls = 0
    \* no chains
    /\ filter = "Constant"
    /\ config = Config(0, 0, 0, 0, 0, 0)
    /\ global_state = NoState
    /\ chains = <<>>
    /\ matrix = AtomicMatrix_new(0)
    /\ workers = <<>>
    /\ mc_pc = "idle"
    /\ next_beta = F0
    /\ estimator = F0
    /\ steps = 0
    /\ swapped = 0
    /\ panic = ""
    /\ evolve_ret = F0
    /\ count_scale = 1
    /\ scaled = Matrix_new(0, F0)
    /\ step_log = NoStepLog
    /\ bitmatrix = NoBitMatrix
    /\ product = NoProduct
    /\ exit_code = Running
    /\ ratios = <<>>
    /\ step_budget = 0

\* a graph is loaded and as_shuffled_dinic_graph builds its network
InitMatching ==
    /\ graph \in Graphs
    /\ \E ls \in Shuffles(graph.size), rs \in Shuffles(graph.size) :
          LET sdg == as_shuffled_dinic_graph(graph, ls, rs)
          IN  /\ dinic = sdg.graph
              /\ shuffled = [left |-> sdg.left, right |-> sdg.right]
    /\ pc = "build"
    /\ result = 0
    /\ phases = 0
    \* no schedule
    /\ schedule = CoolingScheduleFrom(CoolingConfig(1, 1, 1))
    /\ ret = None
    /\ prev = None
    /\ yielded = 0
    /\ calls = 0
    \* no chains
    /\ filter = "Constant"
    /\ config = Config(0, 0, 0, 0, 0, 0)
    /\ global_state = NoState
    /\ chains = <<>>
    /\ matrix = AtomicMatrix_new(0)
    /\ workers = <<>>
    /\ mc_pc = "idle"
    /\ next_beta = F0
    /\ estimator = F0
    /\ steps = 0
    /\ swapped = 0
    /\ panic = ""
    /\ evolve_ret = F0
    /\ count_scale = 1
    /\ scaled = Matrix_new(0, F0)
    /\ step_log = NoStepLog
    /\ bitmatrix = NoBitMatrix
    /\ product = NoProduct
    /\ exit_code = Running
    /\ ratios = <<>>
    /\ step_budget = 0

\* the schedule of any admissible configuration of the model
InitSchedule ==
    /\ \E n \in 1..MaxScheduleN, ra \in 1..MaxRatio, rm \in 1..MaxRatio :
           schedule = CoolingScheduleFrom(CoolingConfig(n, ra, rm))
    /\ ret = None
    /\ prev = None
    /\ yielded = 0
    /\ calls = 0
    \* no max-flow run
    /\ graph = NoGraph
    /\ shuffled = NoShuffle
    /\ dinic = DinicGraphNew(2, 0, 1)
    /\ pc = "idle"
    /\ result = 0
    /\ phases = 0
    \* no chains
    /\ filter = "Constant"
    /\ config = Config(0, 0, 0, 0, 0, 0)
    /\ global_state = NoState
    /\ chains = <<>>
    /\ matrix = AtomicMatrix_new(0)
    /\ workers = <<>>
    /\ mc_pc = "idle"
    /\ next_beta = F0
    /\ estimator = F0
    /\ steps = 0
    /\ swapped = 0
    /\ panic = ""
    /\ evolve_ret = F0
    /\ count_scale = 1
    /\ scaled = Matrix_new(0, F0)
    /\ step_log = NoStepLog
    /\ bitmatrix = NoBitMatrix
    /\ product = NoProduct
    /\ exit_code = Running
    /\ ratios = <<>>
    /\ step_budget = 0

\* the cooling schedule, called until it ends and a few times more
NextSchedule == ScheduleNext
SpecSchedule == InitSchedule /\ [][NextSchedule]_vars

\* a network built by add_edge, then calculate_flow
NextDinic == AddEdge \/ Bfs \/ Dfs
SpecDinic == InitDinic /\ [][NextDinic]_vars

\* the bipartite build of a graph, then calculate_flow
NextMatching == Bfs \/ Dfs \/ Main
SpecMatching == InitMatching /\ [][NextMatching]_vars

\* the strictly increasing lists over 0..n-1: one per set of neighbours
Rows(n) == {r \in SeqsUpTo(0..(n - 1), n) : \A i \in 1..(Len(r) - 1) : r[i] < r[i + 1]}

\* the graphs a run of the chains is given
EnsembleGraphs == UNION {{Graph(n, es) : es \in [1..n -> Rows(n)]} : n \in 1..MaxEnsembleN}

\* the configurations a run of the chains is given
Configs ==
    {Config(nc, wt, wsi, esi, nw, ne) :
        nc \in 1..MaxChains, wt \in 1..MaxInterval, wsi \in 1..MaxInterval,
        esi \in 1..MaxInterval, nw \in 1..MaxEstimations, ne \in 1..MaxInterval}

\* run_chain after MCState::new: the chains at random matches, the warmup ahead
InitEnsemble ==
    /\ graph \in EnsembleGraphs
    /\ filter \in Filters
    /\ config \in Configs
    /\ global_state = StateFrom(graph)
    /\ chains \in [1..config.num_of_chains ->
                      {new_chain(filter, m, StateFrom(graph)) : m \in Match_random(graph.size)}]
    /\ matrix = AtomicMatrix_new(graph.size)
    /\ workers = [c \in 1..config.num_of_chains |-> Worker("warmup", 0, 0)]
    /\ mc_pc = "warmup"
    /\ next_beta = F0
    /\ estimator = F0
    /\ steps = 0
    /\ swapped = 0
    /\ panic = ""
    /\ evolve_ret = F0
    /\ count_scale = 1
    /\ scaled = Matrix_new(0, F0)
    /\ step_log = NoStepLog
    /\ bitmatrix = NoBitMatrix
    /\ product = NoProduct
    /\ exit_code = Running
    /\ ratios = <<>>
    /\ step_budget = MaxSteps
    \* the schedule of run_chain, both slow-down factors at their default
    /\ schedule = CoolingScheduleFrom(CoolingConfig(graph.size, 1, 1))
    /\ ret = None
    /\ prev = None
    /\ yielded = 0
    /\ calls = 0
    \* the max-flow run is over
    /\ shuffled = NoShuffle
    /\ dinic = DinicGraphNew(2, 0, 1)
    /\ pc = "idle"
    /\ result = 0
    /\ phases = 0

NextEnsemble ==
    \/ WarmupTransit
    \/ CoolingEvolveEnter
    \/ EvolveBegin
    \/ WeightTransit
    \/ WeightSample
    \/ EstimatorTransit
    \/ EstimatorSample
    \/ EvolveEnd
SpecEnsemble == InitEnsemble /\ [][NextEnsemble]_vars

\* run_chain with one chain and every interval and count at 1, followed until
\* cooling_evolve returns
InitCooling ==
    /\ graph \in EnsembleGraphs
    /\ filter \in Filters
    /\ config = Config(1, 1, 1, 1, 1, 1)
    /\ global_state = StateFrom(graph)
    /\ chains \in [1..config.num_of_chains ->
                      {new_chain(filter, m, StateFrom(graph)) : m \in Match_random(graph.size)}]
    /\ matrix = AtomicMatrix_new(graph.size)
    /\ workers = [c \in 1..config.num_of_chains |-> Worker("warmup", 0, 0)]
    /\ mc_pc = "warmup"
    /\ next_beta = F0
    /\ estimator = F0
    /\ steps = 0
    /\ swapped = 0
    /\ panic = ""
    /\ evolve_ret = F0
    /\ count_scale = 1
    /\ scaled = Matrix_new(0, F0)
    /\ step_log = NoStepLog
    /\ bitmatrix = NoBitMatrix
    /\ product = NoProduct
    /\ exit_code = Running
    /\ ratios = <<>>
    \* followed to the end of the schedule
    /\ step_budget = Total(CoolingConfig(graph.size, 1, 1))
    \* the schedule of run_chain, both slow-down factors at their default
    /\ schedule = CoolingScheduleFrom(CoolingConfig(graph.size, 1, 1))
    /\ ret = None
    /\ prev = None
    /\ yielded = 0
    /\ calls = 0
    \* the max-flow run is over
    /\ shuffled = NoShuffle
    /\ dinic = DinicGraphNew(2, 0, 1)
    /\ pc = "idle"
    /\ result = 0
    /\ phases = 0

SpecCooling == InitCooling /\ [][NextEnsemble]_vars

\* run_chain with several chains at work at once, followed for one evolve call
InitHistogram ==
    /\ graph \in EnsembleGraphs
    /\ filter \in Filters
    /\ config = Config(ConcurrentChains, 1, 1, 1, MaxPicks, 1)
    /\ global_state = StateFrom(graph)
    /\ chains \in [1..config.num_of_chains ->
                      {new_chain(filter, m, StateFrom(graph)) : m \in Match_random(graph.size)}]
    /\ matrix = AtomicMatrix_new(graph.size)
    /\ workers = [c \in 1..config.num_of_chains |-> Worker("warmup", 0, 0)]
    /\ mc_pc = "warmup"
    /\ next_beta = F0
    /\ estimator = F0
    /\ steps = 0
    /\ swapped = 0
    /\ panic = ""
    /\ evolve_ret = F0
    /\ count_scale = 1
    /\ scaled = Matrix_new(0, F0)
    /\ step_log = NoStepLog
    /\ bitmatrix = NoBitMatrix
    /\ product = NoProduct
    /\ exit_code = Running
    /\ ratios = <<>>
    /\ step_budget = 1
    \* the schedule of run_chain, both slow-down factors at their default
    /\ schedule = CoolingScheduleFrom(CoolingConfig(graph.size, 1, 1))
    /\ ret = None
    /\ prev = None
    /\ yielded = 0
    /\ calls = 0
    \* the max-flow run is over
    /\ shuffled = NoShuffle
    /\ dinic = DinicGraphNew(2, 0, 1)
    /\ pc = "idle"
    /\ result = 0
    /\ phases = 0

SpecHistogram == InitHistogram /\ [][NextEnsemble]_vars

\* the product of cooling_evolve on its own, for a state of any size
InitProduct ==
    \* no schedule
    /\ schedule = CoolingScheduleFrom(CoolingConfig(1, 1, 1))
    /\ ret = None
    /\ prev = None
    /\ yielded = 0
    /\ calls = 0
    \* no max-flow run
    /\ graph = NoGraph
    /\ shuffled = NoShuffle
    /\ dinic = DinicGraphNew(2, 0, 1)
    /\ pc = "idle"
    /\ result = 0
    /\ phases = 0
    \* no chains
    /\ filter = "Constant"
    /\ config = Config(0, 0, 0, 0, 0, 0)
    /\ global_state = NoState
    /\ chains = <<>>
    /\ matrix = AtomicMatrix_new(0)
    /\ workers = <<>>
    /\ mc_pc = "idle"
    /\ next_beta = F0
    /\ estimator = F0
    /\ steps = 0
    /\ swapped = 0
    /\ panic = ""
    /\ evolve_ret = F0
    /\ count_scale = 1
    /\ scaled = Matrix_new(0, F0)
    /\ step_log = NoStepLog
    /\ bitmatrix = NoBitMatrix
    /\ \E n \in 1..MaxFactorialN : product = Product(n)
    /\ exit_code = Running
    /\ ratios = <<>>
    /\ step_budget = 0

NextProduct == ProductStep \/ ProductEnd
SpecProduct == InitProduct /\ [][NextProduct]_vars

\* a BitMatrix on its own: BitMatrix::new, then State::from or calls of set
InitBitMatrix ==
    \* no schedule
    /\ schedule = CoolingScheduleFrom(CoolingConfig(1, 1, 1))
    /\ ret = None
    /\ prev = None
    /\ yielded = 0
    /\ calls = 0
    \* no max-flow run
    /\ graph = NoGraph
    /\ shuffled = NoShuffle
    /\ dinic = DinicGraphNew(2, 0, 1)
    /\ pc = "idle"
    /\ result = 0
    /\ phases = 0
    \* no chains
    /\ filter = "Constant"
    /\ config = Config(0, 0, 0, 0, 0, 0)
    /\ global_state = NoState
    /\ chains = <<>>
    /\ matrix = AtomicMatrix_new(0)
    /\ workers = <<>>
    /\ mc_pc = "idle"
    /\ next_beta = F0
    /\ estimator = F0
    /\ steps = 0
    /\ swapped = 0
    /\ panic = ""
    /\ evolve_ret = F0
    /\ count_scale = 1
    /\ scaled = Matrix_new(0, F0)
    /\ step_log = NoStepLog
    /\ \E n \in 1..MaxBitN : bitmatrix = BitMatrixUnder(n)
    /\ product = NoProduct
    /\ exit_code = Running
    /\ ratios = <<>>
    /\ step_budget = 0

NextBitMatrix == BitMatrixSet \/ BitMatrixFrom
SpecBitMatrix == InitBitMatrix /\ [][NextBitMatrix]_vars

\* the weights of the model: the small integers
WeightValues == {FromInt(w) : w \in 1..MaxWeight}

\* the weight matrices of the model: 1.0 in all but a few cells
WeightMatrices(n) ==
    {data \in [1..(n * n) -> WeightValues] :
        Cardinality({i \in 1..(n * n) : data[i] # F1}) <= MaxHeavy}

\* the matches whose left and right endpoints are permutations
PermutationMatches(n) ==
    {Match([i \in 1..n |-> <<l[i], r[i]>>]) : l \in Shuffles(n), r \in Shuffles(n)}

\* the graph whose edges are (u, u)
DiagonalGraph(n) == Graph(n, [u \in 1..n |-> <<u - 1>>])

\* one chain at a permutation match under a weight matrix that stays
InitChain ==
    /\ \E n \in 2..MaxChainN : graph = DiagonalGraph(n)
    /\ filter \in Filters
    /\ config = Config(1, 0, 0, 0, 0, 0)
    /\ \E data \in WeightMatrices(graph.size) :
           global_state = [StateFrom(graph) EXCEPT !.weight.data = data]
    /\ \E m \in PermutationMatches(graph.size) :
           chains = <<new_chain(filter, m, global_state)>>
    /\ matrix = AtomicMatrix_new(graph.size)
    /\ workers = <<Worker("chain", 0, 0)>>
    /\ mc_pc = "chain"
    /\ next_beta = F0
    /\ estimator = F0
    /\ steps = 0
    /\ swapped = 0
    /\ panic = ""
    /\ evolve_ret = F0
    /\ count_scale = 1
    /\ scaled = Matrix_new(0, F0)
    /\ step_log = NoStepLog
    /\ bitmatrix = NoBitMatrix
    /\ product = NoProduct
    /\ exit_code = Running
    /\ ratios = <<>>
    /\ step_budget = 0
    \* no schedule
    /\ schedule = CoolingScheduleFrom(CoolingConfig(1, 1, 1))
    /\ ret = None
    /\ prev = None
    /\ yielded = 0
    /\ calls = 0
    \* no max-flow run
    /\ shuffled = NoShuffle
    /\ dinic = DinicGraphNew(2, 0, 1)
    /\ pc = "idle"
    /\ result = 0
    /\ phases = 0

NextChain == ChainTransit
SpecChain == InitChain /\ [][NextChain]_vars

\* a histogram, a weight matrix and a factor
InitFinish ==
    /\ \E n \in 1..MaxFinishN : graph = DiagonalGraph(n)
    /\ filter = "Constant"
    /\ config = Config(0, 0, 0, 0, 0, 0)
    /\ \E data \in [1..(graph.size * graph.size) -> WeightValues] :
           global_state = [StateFrom(graph) EXCEPT !.weight.data = data]
    /\ chains = <<>>
    /\ \E data \in [1..(graph.size * graph.size) -> 0..MaxCount] :
           matrix = [AtomicMatrix_new(graph.size) EXCEPT !.data = data]
    /\ workers = <<>>
    /\ mc_pc = "finish"
    /\ next_beta = F0
    /\ estimator = F0
    /\ steps = 0
    /\ swapped = 0
    /\ panic = ""
    /\ evolve_ret = F0
    /\ count_scale \in 1..MaxScale
    /\ scaled = Matrix_new(0, F0)
    /\ step_log = NoStepLog
    /\ bitmatrix = NoBitMatrix
    /\ product = NoProduct
    /\ exit_code = Running
    /\ ratios = <<>>
    /\ step_budget = 0
    \* no schedule
    /\ schedule = CoolingScheduleFrom(CoolingConfig(1, 1, 1))
    /\ ret = None
    /\ prev = None
    /\ yielded = 0
    /\ calls = 0
    \* no max-flow run
    /\ shuffled = NoShuffle
    /\ dinic = DinicGraphNew(2, 0, 1)
    /\ pc = "idle"
    /\ result = 0
    /\ phases = 0

NextFinish == Finish
SpecFinish == InitFinish /\ [][NextFinish]_vars

(***************************************************************************)
(* Claims on the cooling schedule                                          *)
(***************************************************************************)

\* C1: for every admissible configuration next yields exactly
\* K_a + 1 + K_m values: it never yields more, it is in the terminated
\* state exactly when that many were yielded, and from then on it returns
\* None.
C1_ExactCount ==
    /\ yielded <= Total(schedule.config)
    /\ (schedule.state.kind = "Infinite") <=> (yielded = Total(schedule.config))
    /\ calls > Total(schedule.config) => ~ret.some

\* C2: every value the schedule yields is >= the value yielded just before
\* it (the comparison of the repository's tests, `value >= last`).
C2_Monotone ==
    (ret.some /\ prev.some) => FGe(ret.v, prev.v)

(***************************************************************************)
(* Claims on the max-flow matcher                                          *)
(***************************************************************************)

\* the capacity of the cut (S, nodes \ S): forward edges leaving S
RECURSIVE cut_cap_from(_, _, _)
cut_cap_from(g, S, id) ==
    IF id >= Len(g.edges) THEN 0
    ELSE LET e == EdgeAt(g, id)
         IN  (IF e.points[1] \in S /\ e.points[2] \notin S THEN e.cap ELSE 0)
             + cut_cap_from(g, S, id + 2)

MinCut(g) ==
    LET inner == (DOMAIN g.adjacency) \ {g.source, g.sink}
        cuts == {cut_cap_from(g, T \cup {g.source}, 0) : T \in SUBSET inner}
    IN  CHOOSE c \in cuts : \A d \in cuts : c <= d

IsTextbook(g) ==
    /\ Len(g.edges) = Len(Textbook.edges)
    /\ \A i \in 1..Len(g.edges) :
          /\ g.edges[i].points = Textbook.edges[i].points
          /\ g.edges[i].cap = Textbook.edges[i].cap

\* C3: calculate_flow terminates (every level-graph phase but the last
\* raises the flow, so bfs runs at most flow + 1 times) and returns the
\* maximum s-t flow, which is the minimum cut capacity; on the textbook
\* network of the test it returns 23.
C3_MaxFlow ==
    /\ pc \in {"build", "bfs", "dfs", "done"} => phases <= dinic.flow + 1
    /\ pc = "done" => result = MinCut(dinic)
    /\ (pc = "done" /\ IsTextbook(dinic)) => result = 23

\* calculate_flow has returned on the textbook network, after several phases
C3_Witness ==
    /\ pc = "done"
    /\ IsTextbook(dinic)
    /\ phases >= 3
    /\ result = 23

\* the set of right vertices listed for left vertex u
Neighbours(gr, u) == {gr.edges[u + 1][k] : k \in 1..Len(gr.edges[u + 1])}

EdgeSet(gr) == {<<u, v>> : u \in 0..(gr.size - 1), v \in 0..(gr.size - 1)}
                   \cap {e \in (0..(gr.size - 1)) \X (0..(gr.size - 1)) : e[2] \in Neighbours(gr, e[1])}

IsMatching(M) == \A e1, e2 \in M : e1 # e2 => (e1[1] # e2[1] /\ e1[2] # e2[2])

\* the size of a maximum matching, by enumeration
MaxMatching(gr) ==
    LET sizes == {Cardinality(M) : M \in {X \in SUBSET EdgeSet(gr) : IsMatching(X)}}
    IN  CHOOSE c \in sizes : \A d \in sizes : d <= c

HasPerfectMatching(gr) ==
    \E p \in Shuffles(gr.size) : \A u \in 0..(gr.size - 1) : p[u + 1] \in Neighbours(gr, u)

\* C4: on the bipartite build, for any two shuffles, calculate_flow returns
\* a value <= n equal to the size of a maximum matching, and n exactly when
\* the graph has a perfect matching.
C4_BipartiteFlow ==
    (pc = "done" /\ graph.size > 0) =>
        /\ result <= graph.size
        /\ result = MaxMatching(graph)
        /\ (result = graph.size) <=> HasPerfectMatching(graph)

\* a graph with a perfect matching that the first phase alone does not find
C4_Witness ==
    /\ pc = "done"
    /\ graph.size = 3
    /\ result = 3
    /\ phases >= 3

\* C5: after calculate_flow, current_flow of the shuffled build yields pairs
\* in the original numbering: each is an edge of the input graph, no left
\* and no right vertex occurs twice, there are as many pairs as the flow,
\* and on the identity graph every pair has u = v.
C5_CurrentFlow ==
    (pc = "done" /\ graph.size > 0) =>
        LET pairs == shuffled_current_flow(dinic, shuffled)
        IN  /\ \A i \in 1..Len(pairs) : pairs[i][2] \in Neighbours(graph, pairs[i][1])
            /\ \A i, j \in 1..Len(pairs) :
                  i # j => (pairs[i][1] # pairs[j][1] /\ pairs[i][2] # pairs[j][2])
            /\ Len(pairs) = result
            /\ (\A u \in 0..(graph.size - 1) : graph.edges[u + 1] = <<u>>)
                   => \A i \in 1..Len(pairs) : pairs[i][1] = pairs[i][2]

\* the identity graph of size 3 under shuffles that are not their own inverse
C5_Witness ==
    /\ pc = "done"
    /\ graph.size = 3
    /\ \A u \in 0..2 : graph.edges[u + 1] = <<u>>
    /\ Len(shuffled_current_flow(dinic, shuffled)) = 3
    /\ shuffled.left = <<1, 2, 0>>
    /\ shuffled.right = <<2, 0, 1>>

(***************************************************************************)
(* Claims on the chains                                                    *)
(***************************************************************************)
\* the left (k = 1) or right (k = 2) endpoints of the edges are 0..n-1, once each
IsPermutation(edges, k, n) ==
    /\ Len(edges) = n
    /\ {edges[i][k] : i \in 1..Len(edges)} = 0..(n - 1)

\* C6: from a match whose left and right endpoints are permutations of
\* [0, n), after any sequence of transit calls on two distinct positions,
\* accepted or rejected, the match has n edges and both its projections are
\* permutations of [0, n).
C6_PermutationsPreserved ==
    mc_pc = "chain" =>
        \A c \in 1..Len(chains) :
            /\ Len(chains[c].matching.edges) = graph.size
            /\ IsPermutation(chains[c].matching.edges, 1, graph.size)
            /\ IsPermutation(chains[c].matching.edges, 2, graph.size)

\* three transit calls on a match of three edges, the last one accepted
C6_Witness ==
    /\ mc_pc = "chain"
    /\ graph.size = 3
    /\ workers[1].t = 3
    /\ swapped = 1
    /\ filter = "Multiplicative"
    /\ chains[1].matching.edges = <<<<2, 0>>, <<0, 1>>, <<1, 2>>>>

\* C7: in a run as the driver wires it (a graph with a perfect matching,
\* MCState::new, warmup, cooling_evolve with recompute = false), after every
\* accepted swap the cached weight of the chain equals the sum of W over the
\* edges of its match, W being the matrix installed at that moment.
C7_CachedWeight ==
    (mc_pc \in {"warmup", "evolve"} /\ swapped # 0 /\ HasPerfectMatching(graph)) =>
        FEq(chains[swapped].weight,
            weight_of_match(global_state, chains[swapped].matching))

\* (u, v) is an edge of the input graph
InGraph(gr, u, v) == \E k \in 1..Len(gr.edges[u + 1]) : gr.edges[u + 1][k] = v

C9_IncrementalAttr ==
    (mc_pc = "chain" /\ filter \in {"Additive", "Multiplicative"}) =>
        FEq(chains[1].attr, initial_attr(filter, chains[1].matching, global_state))

(***************************************************************************)
(* Claims on the histogram                                                 *)
(***************************************************************************)
\* no cell of the matrix is at the cap
BelowCap(mx) == \A i \in DOMAIN mx.data : FLt(mx.data[i], finish_cap(mx.size))

\* C10 as stated: for any histogram and any positive integer factor, finish
\* returns the same matrix for the multiplied counters, no cell being at the cap.
C10_ScaleInvariant ==
    (mc_pc = "finished" /\ BelowCap(global_state.weight) /\ BelowCap(scaled)) =>
        scaled = global_state.weight

\* C10 amended: for a histogram whose counters are all at least 1 and a
\* factor that is a power of two, finish returns the same matrix for the
\* multiplied counters, no cell being at the cap.
C10_ScaleInvariantPositive ==
    (/\ mc_pc = "finished"
     /\ BelowCap(global_state.weight)
     /\ BelowCap(scaled)
     /\ \A i \in DOMAIN matrix.data : matrix.data[i] >= 1
     /\ is_power_of_two(count_scale)) =>
        scaled = global_state.weight

\* unequal positive counters multiplied by four
C10_Witness ==
    /\ mc_pc = "finished"
    /\ matrix.size = 2
    /\ matrix.data = <<1, 2, 2, 1>>
    /\ count_scale = 4
    /\ scaled = global_state.weight
    /\ BelowCap(scaled)
    /\ \E i, j \in DOMAIN scaled.data : scaled.data[i] # scaled.data[j]

(***************************************************************************)
(* C11: the ratio evolve returns.                                          *)
(***************************************************************************)
\* the ratio the two sums call for: their quotient when S_sum < S_weight, else 1
clamped_ratio(s) == IF FLt(s[2], s[1]) THEN FDiv(s[2], s[1]) ELSE F1

C11_BelowOne ==
    /\ mc_pc = "cooling"
    /\ steps > 0
    /\ FLt(evolve_ret, F1)

(***************************************************************************)
(* C12: the loop of cooling_evolve.                                        *)
(***************************************************************************)
\* est multiplied by rs[i], rs[i + 1], ... in turn
RECURSIVE times_ratios(_, _, _)
times_ratios(est, rs, i) ==
    IF i > Len(rs) THEN est ELSE times_ratios(FMul(est, rs[i]), rs, i + 1)

C13_RejectsNonzero ==
    (pc \in {"exit", "run_chain"} /\ ~HasPerfectMatching(graph)) =>
        /\ pc = "exit"
        /\ mc_pc = "idle" /\ chains = <<>> /\ steps = 0
        /\ exit_code.over
        /\ exit_code.code # 0

\* the part of C13 the driver keeps: a graph without perfect matching never
\* reaches run_chain, a graph with one always does
C13_GateOnly ==
    /\ pc = "exit" => (~HasPerfectMatching(graph) /\ mc_pc = "idle" /\ chains = <<>>)
    /\ pc = "run_chain" => (HasPerfectMatching(graph) /\ ~exit_code.over)

(***************************************************************************)
(* C14: the length of the schedule for n = 10, r_a = r_m = 1.              *)
(***************************************************************************)
\* the configuration of the test simple_cooling_schedule
SimpleConfig == CoolingConfig(10, 1, 1)

\* C14 as stated: for n = 10, r_a = r_m = 1 the schedule yields 161 values
\* in total and then terminates.
C14_Yields161 ==
    schedule.config = SimpleConfig =>
        /\ yielded <= 161
        /\ schedule.state.kind = "Infinite" <=> yielded = 161

\* C14 amended: for n = 10, r_a = r_m = 1 the schedule yields
\* 1 + 4*10*1 + 10*16*1 = 201 values in total and then terminates.
C14_Yields201 ==
    schedule.config = SimpleConfig =>
        /\ K_a(SimpleConfig) = 40 /\ K_m(SimpleConfig) = 160
        /\ yielded <= 201
        /\ schedule.state.kind = "Infinite" <=> yielded = 201
        /\ calls > 201 => ~ret.some

\* the schedule for n = 10 has ended and next was called once more
C14_Witness ==
    /\ schedule.config = SimpleConfig
    /\ schedule.state.kind = "Infinite"
    /\ yielded = 201
    /\ calls = 202
    /\ ~ret.some

(***************************************************************************)
(* C15: the factorial the estimator starts from.                           *)
(***************************************************************************)
\* n! in the integers, for n small enough to be computed
RECURSIVE exact_factorial(_)
exact_factorial(n) == IF n = 0 THEN 1 ELSE n * exact_factorial(n - 1)

\* C15: for every size n >= 1 the product (1..=n) never overflows or wraps
\* the word, and the estimator is initialized to exactly n! and is strictly
\* positive.
C15_FactorialExact ==
    /\ product.stage # "panicked"
    /\ ~product.wrapped
    /\ product.stage = "done" =>
          /\ product.acc = exact_factorial(product.size)
          /\ FGt(estimator, F0)

\* the product wrapped to 0 and the estimator starts from 0.0
C15_ZeroEstimator ==
    /\ product.stage = "done"
    /\ product.wrapped
    /\ product.acc = 0
    /\ IsZero(estimator)

\* while the product fits the word it is n! and the estimator is positive
C15_ExactUntilOverflow ==
    (product.stage = "done" /\ ~product.wrapped) =>
        /\ product.acc = exact_factorial(product.size)
        /\ FGt(estimator, F0)

(***************************************************************************)
(* C16: BitMatrix set and get, and the adjacency matrix of State::from.    *)
(***************************************************************************)
\* the cells of a matrix of the given size
Cells(size) == (0..(size - 1)) \X (0..(size - 1))

\* C16: after set(u, v, b) on in-range cells, get(u, v) is b and get of every
\* other cell is what it was; the word of every cell index u*n+v is one of the
\* n*n/64+1 allocated words; and after State::from(graph), get(u, v) holds
\* exactly when v is in edges[u].
C16_BitMatrix ==
    /\ Len(bitmatrix.bits.data) = (bitmatrix.bits.size * bitmatrix.bits.size) \div 64 + 1
    /\ \A c \in Cells(bitmatrix.bits.size) :
          ((c[1] * bitmatrix.bits.size + c[2]) \div 64) + 1 \in DOMAIN bitmatrix.bits.data
    /\ bitmatrix.from = "set" =>
          \A c \in Cells(bitmatrix.bits.size) :
              BitMatrix_get(bitmatrix.bits, c[1], c[2]) =
                  IF c = <<bitmatrix.u, bitmatrix.v>> THEN bitmatrix.value
                  ELSE BitMatrix_get(bitmatrix.before, c[1], c[2])
    /\ bitmatrix.from = "graph" =>
          \A c \in Cells(bitmatrix.bits.size) :
              BitMatrix_get(bitmatrix.bits, c[1], c[2]) <=>
                  \E k \in 1..Len(graph.edges[c[1] + 1]) : graph.edges[c[1] + 1][k] = c[2]

\* a bit of the second word has been set and then cleared again
C16_Witness ==
    /\ bitmatrix.from = "set"
    /\ bitmatrix.sets = 2
    /\ ~bitmatrix.value
    /\ bitmatrix.u * bitmatrix.bits.size + bitmatrix.v >= 64
    /\ BitMatrix_get(bitmatrix.before, bitmatrix.u, bitmatrix.v)
    /\ ~BitMatrix_get(bitmatrix.bits, bitmatrix.u, bitmatrix.v)

\* State::from has set two bits, one in each word
C16_FromGraph ==
    /\ bitmatrix.from = "graph"
    /\ \E c, d \in Cells(bitmatrix.bits.size) :
          /\ c[1] * bitmatrix.bits.size + c[2] < 64
          /\ d[1] * bitmatrix.bits.size + d[2] >= 64
          /\ BitMatrix_get(bitmatrix.bits, c[1], c[2])
          /\ BitMatrix_get(bitmatrix.bits, d[1], d[2])

(***************************************************************************)
(* C17: the histogram under concurrent chains.                             *)
(***************************************************************************)
\* how often the chains c, c + 1, ... have picked cell i in the running step
RECURSIVE picked_from(_, _)
picked_from(i, c) ==
    IF c > Len(step_log.picks) THEN 0
    ELSE step_log.picks[c][i] + picked_from(i, c + 1)

\* the sum of the counters from cell i on
RECURSIVE counters_from(_)
counters_from(i) ==
    IF i > Len(matrix.data) THEN 0 ELSE matrix.data[i] + counters_from(i + 1)

\* the histogram that holds, for each cell, the number of times it was picked
PickedHistogram ==
    [size |-> matrix.size, data |-> [i \in DOMAIN matrix.data |-> picked_from(i, 1)]]

\* C17: whatever the interleaving of the chains, every counter is the number
\* of times its edge was picked; once every chain is through its weight loop
\* the counters sum to C * num_of_weight_estimations; and the weights finish
\* installs are those it computes from the picked numbers and the weights the
\* step started from.
C17_NoLostIncrement ==
    /\ (mc_pc = "evolve" \/ (mc_pc = "cooling" /\ steps > 0)) =>
          matrix = PickedHistogram
    /\ (/\ mc_pc = "evolve" \/ (mc_pc = "cooling" /\ steps > 0)
        /\ \A c \in 1..Len(workers) : workers[c].stage \in {"estimator", "done"}) =>
          counters_from(1) = Len(chains) * config.num_of_weight_estimations
    /\ (mc_pc = "cooling" /\ steps > 0) =>
          \E rs \in Shapes(1, matrix.size) :
              global_state.weight =
                  finish(PickedHistogram, [global_state EXCEPT !.weight = step_log.weight], rs)

\* finish has run on a histogram in which two chains picked the same edge
C17_Witness ==
    /\ mc_pc = "cooling"
    /\ steps = 1
    /\ Len(chains) >= 2
    /\ \E i \in DOMAIN matrix.data :
          /\ step_log.picks[1][i] >= 1
          /\ step_log.picks[2][i] >= 1
          /\ matrix.data[i] = step_log.picks[1][i] + step_log.picks[2][i]
    /\ global_state.weight # step_log.weight

(***************************************************************************)
(* C18: the two positions of a chain step.                                 *)
(***************************************************************************)
\* the positions choose_edge_pairs can return are two distinct indices of the match
DistinctPositions(am) ==
    /\ choose_edge_pairs(am) # {}
    /\ \A p \in choose_edge_pairs(am) :
          /\ p[1] # p[2]
          /\ p[1] \in 0..(Len(am.matching.edges) - 1)
          /\ p[2] \in 0..(Len(am.matching.edges) - 1)

\* C18: for every match size n >= 1 a chain step gets two distinct positions
\* in [0, n) and completes without an out-of-bounds access or other failure.
C18_StepCompletes ==
    \A c \in 1..Len(chains) :
        (Len(chains[c].matching.edges) >= 1 /\ workers[c].t >= 1) =>
            /\ panic \notin {"index out of bounds", "attempt to subtract with overflow"}
            /\ DistinctPositions(chains[c])

\* for match sizes n >= 2 the step does get its two positions and completes
C18_FromTwo ==
    \A c \in 1..Len(chains) :
        Len(chains[c].matching.edges) >= 2 =>
            /\ DistinctPositions(chains[c])
            /\ panic \notin {"index out of bounds", "attempt to subtract with overflow"}

\* a chain over a match of one edge has panicked in its first step
C18_PanicAtOne ==
    /\ panic = "index out of bounds"
    /\ \E c \in 1..Len(chains) : Len(chains[c].matching.edges) = 1

(***************************************************************************)
(* C19: the invariants of DinicGraph.                                      *)
(***************************************************************************)
\* the sum of the flows of the edges adjacency[v][k], adjacency[v][k + 1], ...
RECURSIVE net_flow_from(_, _, _)
net_flow_from(g, v, k) ==
    IF k > Len(g.adjacency[v]) THEN 0
    ELSE EdgeAt(g, g.adjacency[v][k]).flow + net_flow_from(g, v, k + 1)

\* the net flow leaving node v
net_flow(g, v) == net_flow_from(g, v, 1)

\* C19: after any number of add_edge calls and between the augmentations of
\* calculate_flow, edge id and edge id XOR 1 are a forward edge and its
\* reverse with swapped endpoints, flow[id] = -flow[id XOR 1], every edge has
\* flow <= cap, every node other than source and sink has net flow zero, and
\* the flow field is the net flow leaving the source.
C19_FlowInvariants ==
    /\ Len(dinic.edges) % 2 = 0
    /\ \A id \in 0..(Len(dinic.edges) - 1) :
          /\ EdgeAt(dinic, Xor1(id)).points =
                 <<EdgeAt(dinic, id).points[2], EdgeAt(dinic, id).points[1]>>
          /\ EdgeAt(dinic, id).flow = -EdgeAt(dinic, Xor1(id)).flow
          /\ EdgeAt(dinic, id).flow <= EdgeAt(dinic, id).cap
          /\ id % 2 = 1 => EdgeAt(dinic, id).cap = 0
          /\ \E k \in 1..Len(dinic.adjacency[EdgeAt(dinic, id).points[1]]) :
                dinic.adjacency[EdgeAt(dinic, id).points[1]][k] = id
    /\ \A v \in DOMAIN dinic.adjacency :
          v \notin {dinic.source, dinic.sink} => net_flow(dinic, v) = 0
    /\ dinic.flow = net_flow(dinic, dinic.source)

\* between two augmentations of one phase, flow passing through an inner node
C19_Witness ==
    /\ pc = "dfs"
    /\ dinic.flow >= 1
    /\ \E id \in 0..(Len(dinic.edges) - 1) :
          /\ id % 2 = 0
          /\ EdgeAt(dinic, id).flow >= 1
          /\ EdgeAt(dinic, id).points[1] \notin {dinic.source, dinic.sink}
          /\ EdgeAt(dinic, Xor1(id)).flow = -EdgeAt(dinic, id).flow

=============================================================================
